---- MODULE Spec2Model ----
(***************************************************************************)
(* Model of ap_move_master_to_library/move_calibration.py: the destination *)
(* path planner (build_destination_path and its helpers) and the copy      *)
(* orchestrator (copy_calibration_frames).                                 *)
(*                                                                         *)
(* Data representation                                                     *)
(*   value    a Python scalar: Str(s), Num(n) or Null (None)               *)
(*   datum    a Python dict: a sequence of [key, val] pairs with distinct  *)
(*            keys, in the dict's own key order                            *)
(*   path     a sequence of path segments (strings); dest_dir is such a    *)
(*            sequence as well, the file name is the last segment          *)
(*   source   a source file name [stem, ext]                               *)
(***************************************************************************)
EXTENDS Integers, Sequences, FiniteSets, TLC

VARIABLES
    \* ---- planner harness: two invocations of build_destination_path ----
    inv,          \* inv[i]: the arguments of invocation i
    res,          \* res[i]: its outcome, NotCalled before the call
    \* ---- copy_calibration_frames ----
    args,         \* source_dir, dest_dir, dryrun, no_overwrite
    tree,         \* the source tree: a sequence of [source, datum]
    fs0,          \* destination paths existing when the run starts
    fs,           \* destination paths existing now
    pc,           \* position in copy_calibration_frames
    ti,           \* index into MASTER_CALIBRATION_TYPES (the for loop)
    metadata,     \* result of get_filtered_metadata for the current type
    mi,           \* index of the next metadata item to plan
    copy_list,    \* planned (source_file, dest_file) pairs of this type
    ci,           \* index of the next copy_list entry to copy
    stats,        \* stats[frame_type] = [scanned, copied, skipped]
    existing_files, \* collisions logged by the no_overwrite guard
    raised,       \* exception that left copy_calibration_frames, or "none"
    queries,      \* log of get_filtered_metadata calls (the type filters)
    copy_calls,   \* log of copy_file calls
    planned,      \* log of every pair ever appended to a copy_list
    plan_errors,  \* log of the files the planning loop skipped
    summaries,    \* log of _print_summary calls
    exits         \* main: the process exit code, once the process has ended

plan_vars == <<inv, res>>
run_vars == <<args, tree, fs0, fs, pc, ti, metadata, mi, copy_list, ci, stats,
              existing_files, raised, queries, copy_calls, planned,
              plan_errors, summaries, exits>>
vars == <<inv, res, args, tree, fs0, fs, pc, ti, metadata, mi, copy_list, ci,
          stats, existing_files, raised, queries, copy_calls, planned,
          plan_errors, summaries, exits>>

---------------------------------------------------------------------------
\* Python scalars

Str(s) == [k |-> "str", s |-> s, n |-> 0]
Num(n) == [k |-> "num", s |-> "", n |-> n]
Null == [k |-> "null", s |-> "", n |-> 0]

\* str(v) as an f-string renders it
str(v) == IF v.k = "str" THEN v.s ELSE IF v.k = "num" THEN ToString(v.n) ELSE "None"

\* Python dict operations on a datum
Pair(key, v) == [key |-> key, val |-> v]
Keys(datum) == {datum[i].key : i \in 1..Len(datum)}
HasKey(datum, key) == key \in Keys(datum)
Get(datum, key) == datum[CHOOSE i \in 1..Len(datum) : datum[i].key = key].val

\* `key in datum and datum[key] is not None`
Present(datum, key) == HasKey(datum, key) /\ Get(datum, key) # Null

---------------------------------------------------------------------------
\* config (naming rule set)

TYPE_MASTER_BIAS == "MASTER BIAS"
TYPE_MASTER_DARK == "MASTER DARK"
TYPE_MASTER_FLAT == "MASTER FLAT"
MASTER_CALIBRATION_TYPES == <<TYPE_MASTER_BIAS, TYPE_MASTER_DARK, TYPE_MASTER_FLAT>>

NORMALIZED_HEADER_CAMERA == "camera"
NORMALIZED_HEADER_OPTIC == "optic"
NORMALIZED_HEADER_DATE == "date"

KnownTypes == {MASTER_CALIBRATION_TYPES[i] : i \in 1..Len(MASTER_CALIBRATION_TYPES)}

REQUIRED_PROPERTIES(frame_type) ==
    IF frame_type = TYPE_MASTER_FLAT
    THEN <<NORMALIZED_HEADER_CAMERA, NORMALIZED_HEADER_DATE>>
    ELSE <<NORMALIZED_HEADER_CAMERA>>

FILENAME_PROPERTIES(frame_type) ==
    CASE frame_type = TYPE_MASTER_BIAS -> <<"gain", "offset", "settemp", "readoutmode">>
      [] frame_type = TYPE_MASTER_DARK ->
            <<"exposureseconds", "gain", "offset", "settemp", "readoutmode">>
      [] frame_type = TYPE_MASTER_FLAT ->
            <<"filter", "gain", "offset", "settemp", "readoutmode">>

---------------------------------------------------------------------------
\* ap_common helpers used by the planner

camelCase(label) ==
    CASE label = TYPE_MASTER_BIAS -> "masterBias"
      [] label = TYPE_MASTER_DARK -> "masterDark"
      [] label = TYPE_MASTER_FLAT -> "masterFlat"

NoLabel == "<None>"

\* the denormalization lookup; NoLabel stands for None (no mapping)
denormalize_header(key) ==
    CASE key = "gain" -> "GAIN"
      [] key = "offset" -> "OFFSET"
      [] key = "filter" -> "FILTER"
      [] key = "exposureseconds" -> "EXPOSURE"
      [] key = "settemp" -> "SET-TEMP"
      [] OTHER -> NoLabel

\* str(key).upper()
upper(key) ==
    CASE key = "gain" -> "GAIN"
      [] key = "offset" -> "OFFSET"
      [] key = "filter" -> "FILTER"
      [] key = "exposureseconds" -> "EXPOSURESECONDS"
      [] key = "settemp" -> "SETTEMP"
      [] key = "readoutmode" -> "READOUTMODE"
      [] key = "camera" -> "CAMERA"
      [] key = "optic" -> "OPTIC"
      [] key = "date" -> "DATE"
      [] key = "type" -> "TYPE"

\* variant: the whole file name where the extension is meant
splitext1_whole_name(source_file) == source_file.stem \o source_file.ext

\* os.path.splitext(source_file)[1]
splitext1(source_file) == source_file.ext

RECURSIVE normsegs(_, _)
\* os.path.normpath on an absolute path given as segments: empty and "."
\* segments vanish, ".." removes the segment before it
normsegs(done, rest) ==
    IF rest = <<>> THEN done
    ELSE LET h == Head(rest) IN
         IF h = "" \/ h = "." THEN normsegs(done, Tail(rest))
         ELSE IF h = ".."
              THEN normsegs(IF done = <<>> THEN done ELSE SubSeq(done, 1, Len(done) - 1),
                            Tail(rest))
              ELSE normsegs(Append(done, h), Tail(rest))

normpath(path) == normsegs(<<>>, path)

---------------------------------------------------------------------------
\* Outcomes of a planner call

Returned(path) == [kind |-> "path", path |-> path, msg |-> "", prop |-> ""]
ValueError(msg, prop) == [kind |-> "ValueError", path |-> <<>>, msg |-> msg, prop |-> prop]
TypeError == [kind |-> "TypeError", path |-> <<>>, msg |-> "", prop |-> ""]
NotCalled == [kind |-> "none", path |-> <<>>, msg |-> "", prop |-> ""]

\* os.path.join(dest_dir, *parts): a part that is no str raises TypeError;
\* an empty part adds no segment
all_str(parts) == \A i \in 1..Len(parts) : parts[i].k = "str"
os_path_join(dest_dir, parts) ==
    dest_dir \o [i \in 1..Len(parts) |-> parts[i].s]

---------------------------------------------------------------------------
\* The planner

RECURSIVE filename_properties_by_record(_, _)
\* variant: the loop runs over the record's own keys (`for key in datum`)
filename_properties_by_record(datum, keys) ==
    IF datum = <<>> THEN ""
    ELSE LET key == Head(datum).key
             p == IF denormalize_header(key) = NoLabel THEN upper(key)
                  ELSE denormalize_header(key)
         IN (IF key \in {keys[i] : i \in 1..Len(keys)} /\ Head(datum).val # Null
             THEN "_" \o p \o "_" \o str(Head(datum).val)
             ELSE "")
            \o filename_properties_by_record(Tail(datum), keys)

RECURSIVE filename_properties(_, _)
\* the loop of _build_filename over config.FILENAME_PROPERTIES[datum["type"]]
filename_properties(datum, keys) ==
    IF keys = <<>> THEN ""
    ELSE LET key == Head(keys)
             p == IF denormalize_header(key) = NoLabel THEN upper(key)
                  ELSE denormalize_header(key)
         IN (IF Present(datum, key)
             THEN "_" \o p \o "_" \o str(Get(datum, key))
             ELSE "")
            \o filename_properties(datum, Tail(keys))

_build_filename(datum, file_extension) ==
    camelCase(Get(datum, "type").s)
        \o filename_properties(datum, FILENAME_PROPERTIES(Get(datum, "type").s))
        \o file_extension

_build_bias_path(datum, dest_dir, filename) ==
    LET parts == <<Get(datum, "type"), Get(datum, NORMALIZED_HEADER_CAMERA), Str(filename)>>
    IN IF all_str(parts) THEN Returned(os_path_join(dest_dir, parts)) ELSE TypeError

_build_dark_path(datum, dest_dir, filename) ==
    LET parts == <<Get(datum, "type"), Get(datum, NORMALIZED_HEADER_CAMERA), Str(filename)>>
    IN IF all_str(parts) THEN Returned(os_path_join(dest_dir, parts)) ELSE TypeError

\* `optic in datum and datum[optic] is not None and len(datum[optic]) > 0`;
\* len() of a number raises TypeError
flat_optic_test(datum) ==
    IF ~Present(datum, NORMALIZED_HEADER_OPTIC) THEN "false"
    ELSE IF Get(datum, NORMALIZED_HEADER_OPTIC).k # "str" THEN "TypeError"
    ELSE IF Len(Get(datum, NORMALIZED_HEADER_OPTIC).s) > 0 THEN "true" ELSE "false"

\* variant: the date directory is appended before the optic directory
flat_path_parts_date_first(datum, date_subdir, filename) ==
    <<Get(datum, "type"), Get(datum, NORMALIZED_HEADER_CAMERA), Str(date_subdir)>>
        \o (IF flat_optic_test(datum) = "true"
            THEN <<Get(datum, NORMALIZED_HEADER_OPTIC)>> ELSE <<>>)
        \o <<Str(filename)>>

flat_path_parts(datum, date_subdir, filename) ==
    <<Get(datum, "type"), Get(datum, NORMALIZED_HEADER_CAMERA)>>
        \o (IF flat_optic_test(datum) = "true"
            THEN <<Get(datum, NORMALIZED_HEADER_OPTIC)>> ELSE <<>>)
        \o <<Str(date_subdir), Str(filename)>>

_build_flat_path(datum, dest_dir, filename) ==
    LET date_subdir == "DATE_" \o str(Get(datum, NORMALIZED_HEADER_DATE))
        parts == flat_path_parts(datum, date_subdir, filename)
    IN IF flat_optic_test(datum) = "TypeError" THEN TypeError
       ELSE IF all_str(parts) THEN Returned(os_path_join(dest_dir, parts))
       ELSE TypeError

RECURSIVE first_missing_absent_only(_, _)
\* variant: the check is `prop not in datum` alone, a None value passes
first_missing_absent_only(datum, required_props) ==
    IF required_props = <<>> THEN ""
    ELSE IF ~HasKey(datum, Head(required_props))
         THEN Head(required_props)
         ELSE first_missing_absent_only(datum, Tail(required_props))

\* the first required property that is absent or None, "" when there is none
RECURSIVE first_missing(_, _)
first_missing(datum, required_props) ==
    IF required_props = <<>> THEN ""
    ELSE IF ~HasKey(datum, Head(required_props)) \/ Get(datum, Head(required_props)) = Null
         THEN Head(required_props)
         ELSE first_missing(datum, Tail(required_props))

\* `frame_type not in config.REQUIRED_PROPERTIES`
known_type(frame_type) == frame_type.k = "str" /\ frame_type.s \in KnownTypes

build_path_by_type(frame_type, datum, dest_dir, filename) ==
    IF frame_type = TYPE_MASTER_BIAS THEN _build_bias_path(datum, dest_dir, filename)
    ELSE IF frame_type = TYPE_MASTER_DARK THEN _build_dark_path(datum, dest_dir, filename)
    ELSE _build_flat_path(datum, dest_dir, filename)

build_destination_path(source_file, dest_dir, datum) ==
    IF ~HasKey(datum, "type") THEN ValueError("Missing 'type' metadata", "type")
    ELSE IF ~known_type(Get(datum, "type"))
         THEN ValueError("Unknown frame type", "")
    ELSE LET frame_type == Get(datum, "type").s
             file_extension == splitext1(source_file)
             missing == first_missing(datum, REQUIRED_PROPERTIES(frame_type))
         IN IF missing # "" THEN ValueError("Missing required metadata", missing)
            ELSE LET filename == _build_filename(datum, file_extension)
                     dest_path == build_path_by_type(frame_type, datum, dest_dir, filename)
                 IN IF dest_path.kind = "path"
                    THEN Returned(normpath(dest_path.path))
                    ELSE dest_path

---------------------------------------------------------------------------
\* Inputs of the planner harness

Absent == [k |-> "absent", s |-> "", n |-> 0]

\* a dict literal: the pairs in the order written, absent keys left out
MkDatum(pairs) == SelectSeq(pairs, LAMBDA p : p.val # Absent)

Reverse(seq) == [i \in 1..Len(seq) |-> seq[Len(seq) + 1 - i]]
Remove(datum, key) == SelectSeq(datum, LAMBDA p : p.key # key)
Replace(datum, key, v) ==
    [i \in 1..Len(datum) |-> IF datum[i].key = key THEN Pair(key, v) ELSE datum[i]]

CameraValues == {Absent, Null, Str("CAM1"), Num(7)}
OpticValues == {Absent, Null, Str(""), Str("SCOPE1"), Num(5)}
DateValues == {Absent, Null, Str("2026-01-27"), Num(20260127)}
GainValues == {Absent, Null, Num(100)}
OtherDate == Str("2026-02-01")

BiasRecords ==
    {MkDatum(<<Pair("readoutmode", r), Pair("gain", g), Pair("type", Str(TYPE_MASTER_BIAS)),
               Pair("optic", o), Pair("camera", c)>>) :
        r \in {Absent, Str("Normal")}, g \in GainValues,
        o \in {Absent, Str("SCOPE1")}, c \in CameraValues}

DarkRecords ==
    {MkDatum(<<Pair("gain", g), Pair("camera", c), Pair("type", Str(TYPE_MASTER_DARK)),
               Pair("exposureseconds", e)>>) :
        g \in GainValues, c \in CameraValues, e \in {Absent, Num(300)}}

FlatRecords ==
    {MkDatum(<<Pair("gain", g), Pair("type", Str(TYPE_MASTER_FLAT)), Pair("date", d),
               Pair("optic", o), Pair("filter", f), Pair("camera", c)>>) :
        g \in {Absent, Num(100)}, d \in DateValues, o \in OpticValues,
        f \in {Absent, Str("L")}, c \in CameraValues}

UntypedRecords ==
    {MkDatum(<<Pair("camera", c), Pair("type", t)>>) :
        c \in {Absent, Str("CAM1")},
        t \in {Absent, Null, Str("MASTER UNKNOWN"), Num(1)}}

PlanRecords == BiasRecords \cup DarkRecords \cup FlatRecords \cup UntypedRecords

Source(stem, ext) == [stem |-> stem, ext |-> ext]
Sources == {Source("a", ".xisf"), Source("b", ".fits"), Source("c", ".xisf")}
DestDirs == {<<"lib">>, <<"data", ".", "lib">>}

\* the records a second invocation is given: the same dict, the same pairs
\* in another key order, the dict without its optic, the dict with another date
Variants(datum) ==
    {datum, Reverse(datum), Remove(datum, NORMALIZED_HEADER_OPTIC)}
        \cup (IF HasKey(datum, NORMALIZED_HEADER_DATE)
              THEN {Replace(datum, NORMALIZED_HEADER_DATE, OtherDate)} ELSE {})

Call(source_file, dest_dir, datum) ==
    [source_file |-> source_file, dest_dir |-> dest_dir, datum |-> datum]

NoCall == Call(Source("", ""), <<>>, <<>>)

InitPlan ==
    /\ \E d1 \in PlanRecords, s1 \in Sources, s2 \in Sources, root \in DestDirs :
         \E d2 \in Variants(d1) :
            inv = <<Call(s1, root, d1), Call(s2, root, d2)>>
    /\ res = <<NotCalled, NotCalled>>

InitPlanIdle ==
    /\ inv = <<NoCall, NoCall>>
    /\ res = <<NotCalled, NotCalled>>

\* one invocation of the planner
CallPlan(i) ==
    /\ inv[i] # NoCall
    /\ res[i] = NotCalled
    /\ res' = [res EXCEPT ![i] =
                 build_destination_path(inv[i].source_file, inv[i].dest_dir, inv[i].datum)]
    /\ UNCHANGED <<inv, run_vars>>

---------------------------------------------------------------------------
\* copy_calibration_frames: its environment

MaxFiles == 3

\* replace_env_vars on a directory name
replace_env_vars(name) ==
    CASE name = "${MASTERS}" -> "/masters"
      [] name = "${SCRATCH}" -> "/scratch"
      [] name = "${LIB}" -> "lib"
      [] OTHER -> name

\* os.path.isdir
Directories == {"/masters"}
isdir(name) == name \in Directories

SourceDirs == {"${MASTERS}", "${SCRATCH}"}
DestDirArg == <<"${LIB}", "masters">>

\* the files of the source tree, by position
SourceNames ==
    <<Source("a", ".xisf"), Source("b", ".xisf"), Source("c", ".fits"), Source("d", ".xisf")>>

TreeRecords ==
    { MkDatum(<<Pair("type", Str(TYPE_MASTER_BIAS)), Pair("camera", Str("CAM1")),
                Pair("gain", Num(100))>>),
      MkDatum(<<Pair("type", Str(TYPE_MASTER_BIAS)), Pair("gain", Num(100))>>),
      MkDatum(<<Pair("type", Str(TYPE_MASTER_DARK)), Pair("camera", Str("CAM1")),
                Pair("exposureseconds", Num(300))>>),
      MkDatum(<<Pair("type", Str(TYPE_MASTER_DARK)), Pair("camera", Num(7))>>),
      MkDatum(<<Pair("type", Str(TYPE_MASTER_FLAT)), Pair("camera", Str("CAM1")),
                Pair("optic", Str("SCOPE1")), Pair("date", Str("2026-01-27")),
                Pair("filter", Str("L"))>>),
      MkDatum(<<Pair("type", Str(TYPE_MASTER_FLAT)), Pair("camera", Str("CAM1")),
                Pair("filter", Str("L"))>>) }

Trees ==
    UNION {{[i \in 1..n |-> [source |-> SourceNames[i], datum |-> f[i]]] :
                f \in [1..n -> TreeRecords]} : n \in 0..MaxFiles}

\* get_filtered_metadata(dirs=[source_dir], patterns=[.xisf, .fits],
\* filters={"type": frame_type}): the matching files, in the tree's order
get_filtered_metadata(files, frame_type) ==
    SelectSeq(files, LAMBDA f :
        /\ f.source.ext \in {".xisf", ".fits"}
        /\ HasKey(f.datum, "type")
        /\ Get(f.datum, "type") = Str(frame_type))

\* the destinations the files of a tree are planned to
TreeDestinations(files, dest_dir) ==
    {build_destination_path(files[i].source, dest_dir, files[i].datum).path :
        i \in {j \in 1..Len(files) :
                build_destination_path(files[j].source, dest_dir, files[j].datum).kind = "path"}}

ZeroStats == [scanned |-> 0, copied |-> 0, skipped |-> 0]

InitRun ==
    /\ \E sd \in SourceDirs, dry \in BOOLEAN, now \in BOOLEAN :
         args = [source_dir |-> sd, dest_dir |-> DestDirArg,
                 dryrun |-> dry, no_overwrite |-> now]
    /\ tree \in Trees
    /\ fs0 \in SUBSET TreeDestinations(tree,
                  [i \in 1..Len(DestDirArg) |-> replace_env_vars(DestDirArg[i])])
    /\ fs = fs0
    /\ pc = "start"
    /\ ti = 1
    /\ metadata = <<>>
    /\ mi = 1
    /\ copy_list = <<>>
    /\ ci = 1
    /\ stats = [t \in KnownTypes |-> ZeroStats]
    /\ existing_files = <<>>
    /\ raised = "none"
    /\ queries = <<>>
    /\ copy_calls = <<>>
    /\ planned = <<>>
    /\ plan_errors = <<>>
    /\ summaries = <<>>
    /\ exits = <<>>

InitRunIdle ==
    /\ args = [source_dir |-> "", dest_dir |-> <<>>, dryrun |-> FALSE, no_overwrite |-> FALSE]
    /\ tree = <<>>
    /\ fs0 = {}
    /\ fs = {}
    /\ pc = "idle"
    /\ ti = 1
    /\ metadata = <<>>
    /\ mi = 1
    /\ copy_list = <<>>
    /\ ci = 1
    /\ stats = [t \in KnownTypes |-> ZeroStats]
    /\ existing_files = <<>>
    /\ raised = "none"
    /\ queries = <<>>
    /\ copy_calls = <<>>
    /\ planned = <<>>
    /\ plan_errors = <<>>
    /\ summaries = <<>>
    /\ exits = <<>>

\* the arguments after replace_env_vars
source_dir == replace_env_vars(args.source_dir)
dest_dir == [i \in 1..Len(args.dest_dir) |-> replace_env_vars(args.dest_dir[i])]
frame_type == MASTER_CALIBRATION_TYPES[ti]

---------------------------------------------------------------------------
\* copy_calibration_frames: its steps

\* os.path.exists on a destination path
exists(path) == path \in fs

\* variant: the scan stops at the first destination that exists
_check_for_collisions_first(pairs) ==
    LET hits == SelectSeq(pairs, LAMBDA pr : exists(pr.dest_file))
    IN IF hits = <<>> THEN <<>> ELSE <<hits[1].dest_file>>

\* variant: the scan returns after the first pair of the list
_check_for_collisions_head_only(pairs) ==
    IF pairs # <<>> /\ exists(pairs[1].dest_file) THEN <<pairs[1].dest_file>> ELSE <<>>

\* _check_for_collisions: the destinations of the list that exist, in order
_check_for_collisions(pairs) ==
    LET hits == SelectSeq(pairs, LAMBDA pr : exists(pr.dest_file))
    IN [i \in 1..Len(hits) |-> hits[i].dest_file]

CopyPair(source_file, dest_file) == [source_file |-> source_file, dest_file |-> dest_file]

\* variant: the call leaves dryrun at copy_file's default
CopyCall_default_dryrun(pair, dryrun, ok) ==
    [from_file |-> pair.source_file, to_file |-> pair.dest_file,
     dryrun |-> FALSE, ok |-> ok, frame_type |-> frame_type]

\* copy_file(from_file, to_file, debug, dryrun) as the log records it
CopyCall(pair, dryrun, ok) ==
    [from_file |-> pair.source_file, to_file |-> pair.dest_file,
     dryrun |-> dryrun, ok |-> ok, frame_type |-> frame_type]

\* what a successful copy_file leaves on the filesystem
copy_file_effect(to_file, dryrun) == IF dryrun THEN fs ELSE fs \cup {to_file}

Bump(field) == [stats EXCEPT ![frame_type][field] = @ + 1]

\* variant: the directory check is missing
source_dir_unchecked == TRUE

\* line 238: `os.path.isdir(source_dir)` on the expanded argument
source_dir_valid == isdir(source_dir)

\* variant: no except clause around the planner call
plan_outcome_uncaught(r) == IF r.kind = "path" THEN "planned" ELSE "raised"

\* lines 272-283: what the try/except around build_destination_path makes of
\* the planner's outcome; `except (ValueError, KeyError)` catches those alone
plan_outcome(r) ==
    IF r.kind = "path" THEN "planned"
    ELSE IF r.kind \in {"ValueError", "KeyError"} THEN "skipped"
    ELSE "raised"

\* variant: a failed copy is counted as copied
stats_after_copy_miscounted(ok) == Bump("copied")

\* variant: copied is incremented before copy_file is called, so a failed
\* copy moves both counters
stats_after_copy_both(ok) ==
    IF ok THEN Bump("copied")
    ELSE [stats EXCEPT ![frame_type].copied = @ + 1, ![frame_type].skipped = @ + 1]

\* lines 308 and 311: the counter a copy_file call moves
stats_after_copy(ok) == IF ok THEN Bump("copied") ELSE Bump("skipped")

Planned(source_file, dest_file) ==
    [source_file |-> source_file, dest_file |-> dest_file, frame_type |-> frame_type]
PlanError(source_file, r) ==
    [source_file |-> source_file, frame_type |-> frame_type, error |-> r]

\* lines 233-248: expand the arguments, validate the source directory
Start ==
    /\ pc = "start"
    /\ IF ~source_dir_valid
       THEN /\ raised' = "ValueError"
            /\ pc' = "raised"
       ELSE /\ raised' = raised
            /\ pc' = "scan"
    /\ stats' = [t \in KnownTypes |-> ZeroStats]
    /\ ti' = 1
    /\ UNCHANGED <<exits, plan_vars, args, tree, fs0, fs, metadata, mi, copy_list, ci,
                   existing_files, queries, copy_calls, planned, plan_errors, summaries>>

\* lines 251-270: query the metadata source for the current frame type
Scan ==
    /\ pc = "scan"
    /\ metadata' = get_filtered_metadata(tree, frame_type)
    /\ queries' = Append(queries, frame_type)
    /\ stats' = [stats EXCEPT ![frame_type].scanned = Len(metadata')]
    /\ copy_list' = <<>>
    /\ mi' = 1
    /\ pc' = "plan"
    /\ UNCHANGED <<exits, plan_vars, args, tree, fs0, fs, ti, ci, existing_files, raised,
                   copy_calls, planned, plan_errors, summaries>>

\* lines 271-283: one iteration of the planning loop
Plan ==
    /\ pc = "plan"
    /\ mi <= Len(metadata)
    /\ LET source_file == metadata[mi].source
           r == build_destination_path(source_file, dest_dir, metadata[mi].datum)
       IN CASE plan_outcome(r) = "planned" ->
                 /\ copy_list' = Append(copy_list, CopyPair(source_file, r.path))
                 /\ planned' = Append(planned, Planned(source_file, r.path))
                 /\ mi' = mi + 1
                 /\ UNCHANGED <<stats, plan_errors, raised, pc>>
            [] plan_outcome(r) = "skipped" ->
                 /\ stats' = Bump("skipped")
                 /\ plan_errors' = Append(plan_errors, PlanError(source_file, r))
                 /\ mi' = mi + 1
                 /\ UNCHANGED <<copy_list, planned, raised, pc>>
            [] OTHER ->
                 /\ raised' = r.kind
                 /\ pc' = "raised"
                 /\ UNCHANGED <<copy_list, planned, stats, plan_errors, mi>>
    /\ UNCHANGED <<exits, plan_vars, args, tree, fs0, fs, ti, metadata, ci, existing_files,
                   queries, copy_calls, summaries>>

\* lines 285-295: the no_overwrite guard, once the type's files are planned
Guard ==
    /\ pc = "plan"
    /\ mi > Len(metadata)
    /\ IF args.no_overwrite /\ _check_for_collisions(copy_list) # <<>>
       THEN /\ existing_files' = _check_for_collisions(copy_list)
            /\ raised' = "FileExistsError"
            /\ pc' = "raised"
       ELSE /\ pc' = "copy"
            /\ UNCHANGED <<existing_files, raised>>
    /\ ci' = 1
    /\ UNCHANGED <<exits, plan_vars, args, tree, fs0, fs, ti, metadata, mi, copy_list, stats,
                   queries, copy_calls, planned, plan_errors, summaries>>

\* lines 298-308: copy_file returns
CopyOk ==
    /\ pc = "copy"
    /\ ci <= Len(copy_list)
    /\ copy_calls' = Append(copy_calls, CopyCall(copy_list[ci], args.dryrun, TRUE))
    /\ fs' = copy_file_effect(copy_list[ci].dest_file, args.dryrun)
    /\ stats' = stats_after_copy(TRUE)
    /\ ci' = ci + 1
    /\ UNCHANGED <<exits, plan_vars, args, tree, fs0, pc, ti, metadata, mi, copy_list,
                   existing_files, raised, queries, planned, plan_errors, summaries>>

\* lines 309-311: copy_file raises
CopyFail ==
    /\ pc = "copy"
    /\ ci <= Len(copy_list)
    /\ copy_calls' = Append(copy_calls, CopyCall(copy_list[ci], args.dryrun, FALSE))
    /\ stats' = stats_after_copy(FALSE)
    /\ ci' = ci + 1
    /\ UNCHANGED <<exits, plan_vars, args, tree, fs0, fs, pc, ti, metadata, mi, copy_list,
                   existing_files, raised, queries, planned, plan_errors, summaries>>

\* variant: the summary follows the first frame type's copy loop (the
\* statement after the for loop indented into it, followed by a return)
NextType_early_summary ==
    /\ pc = "copy"
    /\ ci > Len(copy_list)
    /\ pc' = "summary"
    /\ UNCHANGED <<exits, plan_vars, args, tree, fs0, fs, ti, metadata, mi, copy_list, ci,
                   stats, existing_files, raised, queries, copy_calls, planned,
                   plan_errors, summaries>>

\* line 251: the copy loop is exhausted, on to the next frame type
NextType ==
    /\ pc = "copy"
    /\ ci > Len(copy_list)
    /\ IF ti < Len(MASTER_CALIBRATION_TYPES)
       THEN /\ ti' = ti + 1
            /\ pc' = "scan"
       ELSE /\ ti' = ti
            /\ pc' = "summary"
    /\ UNCHANGED <<exits, plan_vars, args, tree, fs0, fs, metadata, mi, copy_list, ci, stats,
                   existing_files, raised, queries, copy_calls, planned, plan_errors,
                   summaries>>

RECURSIVE total(_, _)
\* sum(s[field] for s in stats.values())
total(types, field) ==
    IF types = <<>> THEN 0
    ELSE stats[Head(types)][field] + total(Tail(types), field)

\* lines 182-209 and 314: _print_summary
Summary ==
    /\ pc = "summary"
    /\ summaries' = Append(summaries,
            [per_type |-> stats,
             total_scanned |-> total(MASTER_CALIBRATION_TYPES, "scanned"),
             total_copied |-> total(MASTER_CALIBRATION_TYPES, "copied"),
             total_skipped |-> total(MASTER_CALIBRATION_TYPES, "skipped"),
             dryrun |-> args.dryrun])
    /\ pc' = "done"
    /\ UNCHANGED <<exits, plan_vars, args, tree, fs0, fs, ti, metadata, mi, copy_list, ci, stats,
                   existing_files, raised, queries, copy_calls, planned, plan_errors>>

\* variant: main logs the exception and returns, sys.exit(1) is missing
exit_code_always_zero(exception) == 0

\* lines 352-364: the exit code main leaves, given what left
\* copy_calibration_frames ("none": it returned)
exit_code(exception) == IF exception # "none" THEN 1 ELSE 0

\* lines 352-364: main, once copy_calibration_frames has returned or raised
Exit ==
    /\ pc \in {"done", "raised"}
    /\ exits = <<>>
    /\ exits' = <<exit_code(raised)>>
    /\ UNCHANGED <<plan_vars, args, tree, fs0, fs, pc, ti, metadata, mi, copy_list, ci,
                   stats, existing_files, raised, queries, copy_calls, planned,
                   plan_errors, summaries>>

---------------------------------------------------------------------------
\* Specifications

Init == InitPlanIdle /\ InitRun

Next ==
    \/ Start
    \/ Scan
    \/ Plan
    \/ Guard
    \/ CopyOk
    \/ CopyFail
    \/ NextType
    \/ Summary
    \/ Exit

Spec == Init /\ [][Next]_vars

\* the planner alone, on inputs drawn from PlanRecords
InitPlanner == InitPlan /\ InitRunIdle

NextPlanner == \E i \in {1, 2} : CallPlan(i)

SpecPlan == InitPlanner /\ [][NextPlanner]_vars

---------------------------------------------------------------------------
\* Vocabulary of the properties

Range(seq) == {seq[i] : i \in 1..Len(seq)}
OfType(log, t) == SelectSeq(log, LAMBDA e : e.frame_type = t)
CallPairs(calls) == [i \in 1..Len(calls) |-> CopyPair(calls[i].from_file, calls[i].to_file)]
PlanPairs(log) == [i \in 1..Len(log) |-> CopyPair(log[i].source_file, log[i].dest_file)]
OkCalls(t) == SelectSeq(OfType(copy_calls, t), LAMBDA c : c.ok)
FailedCalls(t) == SelectSeq(OfType(copy_calls, t), LAMBDA c : ~c.ok)
IsPrefix(a, b) == Len(a) <= Len(b) /\ a = SubSeq(b, 1, Len(a))

\* the destinations the run would plan over all frame types
AllPlannedDestinations == TreeDestinations(tree, dest_dir)
Collision == raised = "FileExistsError"
Completed == pc = "done"

---------------------------------------------------------------------------
\* Properties of copy_calibration_frames (specification Spec)

\* C1 (as claimed): with no_overwrite set and some planned destination of any
\* frame type already existing, copy_file is never invoked in the whole run
\* and the run does not complete normally.
C1_AllOrNothingGuard ==
    (args.no_overwrite /\ AllPlannedDestinations \cap fs0 # {})
        => (copy_calls = <<>> /\ ~Completed)

C3_CopyFailureIsLocal ==
    /\ \A t \in KnownTypes :
         /\ stats[t].copied = Len(OkCalls(t))
         /\ stats[t].skipped = Len(FailedCalls(t)) + Len(OfType(plan_errors, t))
    /\ pc = "copy" =>
         CallPairs(OfType(copy_calls, frame_type)) = SubSeq(copy_list, 1, ci - 1)
    /\ pc = "raised" => OfType(copy_calls, frame_type) = <<>>
    /\ Completed => CallPairs(copy_calls) = PlanPairs(planned)

C3_Witness ==
    /\ Completed
    /\ \E i \in 1..Len(copy_calls) :
         /\ ~copy_calls[i].ok
         /\ \E j \in (i + 1)..Len(copy_calls) :
              copy_calls[j].frame_type = copy_calls[i].frame_type
         /\ \E j \in (i + 1)..Len(copy_calls) :
              copy_calls[j].frame_type # copy_calls[i].frame_type

\* C4: when the expanded source directory does not exist the run ends with
\* the fatal ValueError at once: no metadata query, no copy, no summary.
C4_InvalidSourceDirectory ==
    ~isdir(replace_env_vars(args.source_dir)) =>
        /\ pc \in {"start", "raised"}
        /\ pc = "raised" => raised = "ValueError"
        /\ queries = <<>>
        /\ copy_calls = <<>>
        /\ summaries = <<>>

C4_Witness == pc = "raised" /\ ~isdir(replace_env_vars(args.source_dir)) /\ tree # <<>>

\* C5: when the run aborts with FileExistsError the reported list names a
\* planned destination exactly when that destination already existed.
C5_FullCollisionList ==
    Collision =>
        /\ \A e \in Range(planned) :
             e.dest_file \in Range(existing_files) <=> e.dest_file \in fs0
        /\ \A d \in Range(existing_files) :
             \E e \in Range(planned) : e.dest_file = d

C5_Witness ==
    /\ Collision
    /\ Cardinality(Range(existing_files)) >= 2
    /\ \E e \in Range(planned) : e.dest_file \notin fs0

\* C10: with dryrun set every planned pair is still handed to copy_file,
\* once and in plan order, always with dryrun = TRUE, and every call that
\* returns is counted as copied.
C10_DryRunStillCopies ==
    args.dryrun =>
        /\ \A c \in Range(copy_calls) : c.dryrun = TRUE
        /\ IsPrefix(CallPairs(copy_calls), PlanPairs(planned))
        /\ pc = "copy" => Len(OfType(copy_calls, frame_type)) = ci - 1
        /\ (Completed \/ (pc = "copy" /\ ci > Len(copy_list))) =>
             CallPairs(copy_calls) = PlanPairs(planned)
        /\ \A t \in KnownTypes : stats[t].copied = Len(OkCalls(t))

C10_Witness ==
    /\ args.dryrun
    /\ Completed
    /\ Len(planned) >= 2
    /\ \E c \in Range(copy_calls) : c.ok
    /\ \E c \in Range(copy_calls) : ~c.ok

---------------------------------------------------------------------------
\* Properties of build_destination_path (specification SpecPlan)

Called(i) == res[i] # NotCalled
Last(seq) == seq[Len(seq)]
TypeOf(datum) == Get(datum, "type").s
KnownRecord(datum) == HasKey(datum, "type") /\ Get(datum, "type").k = "str"
                          /\ TypeOf(datum) \in KnownTypes
MissingRequired(datum) ==
    {prop \in Range(REQUIRED_PROPERTIES(TypeOf(datum))) :
        ~HasKey(datum, prop) \/ Get(datum, prop) = Null}
ValidRecord(datum) == KnownRecord(datum) /\ MissingRequired(datum) = {}
SamePairs(d1, d2) == Len(d1) = Len(d2) /\ Range(d1) = Range(d2)

\* C6: the planner fails with InvalidMetadata (ValueError) when the record
\* has no type, when its type is no known frame type, and when a property
\* required for its type is absent or null; in the last case the error names
\* a required property that is missing.
C6_InvalidMetadata ==
    \A i \in {1, 2} : Called(i) =>
        LET datum == inv[i].datum IN
        /\ ~HasKey(datum, "type") => res[i].kind = "ValueError"
        /\ (HasKey(datum, "type") /\ ~KnownRecord(datum)) => res[i].kind = "ValueError"
        /\ (KnownRecord(datum) /\ MissingRequired(datum) # {}) =>
             /\ res[i].kind = "ValueError"
             /\ res[i].prop \in MissingRequired(datum)

C6_Witness ==
    /\ Called(1)
    /\ KnownRecord(inv[1].datum)
    /\ TypeOf(inv[1].datum) = TYPE_MASTER_FLAT
    /\ Present(inv[1].datum, NORMALIZED_HEADER_CAMERA)
    /\ HasKey(inv[1].datum, NORMALIZED_HEADER_DATE)
    /\ Get(inv[1].datum, NORMALIZED_HEADER_DATE) = Null
    /\ res[1].kind = "ValueError"
    /\ res[1].prop = NORMALIZED_HEADER_DATE

\* C7 (as claimed): two invocations with identical metadata and identical
\* dest_dir return the identical destination path.
C7_FunctionOfMetadataAndRoot ==
    (/\ Called(1) /\ Called(2)
     /\ inv[1].datum = inv[2].datum
     /\ inv[1].dest_dir = inv[2].dest_dir
     /\ res[1].kind = "path")
        => res[2] = res[1]

\* C7 (amended): the source file enters the path through its extension only:
\* two invocations with identical metadata, identical dest_dir and source
\* files of the same extension return the identical destination path.
C7_FunctionOfMetadataRootAndExtension ==
    (/\ Called(1) /\ Called(2)
     /\ inv[1].datum = inv[2].datum
     /\ inv[1].dest_dir = inv[2].dest_dir
     /\ inv[1].source_file.ext = inv[2].source_file.ext
     /\ res[1].kind = "path")
        => res[2] = res[1]

C7_Witness ==
    /\ Called(1) /\ Called(2)
    /\ inv[1].datum = inv[2].datum
    /\ inv[1].source_file # inv[2].source_file
    /\ inv[1].source_file.ext = inv[2].source_file.ext
    /\ res[1].kind = "path"
    /\ res[2] = res[1]

RECURSIVE Concat(_)
Concat(strings) == IF strings = <<>> THEN "" ELSE Head(strings) \o Concat(Tail(strings))

DisplayKey(key) == IF denormalize_header(key) = NoLabel THEN upper(key)
                   ELSE denormalize_header(key)

\* the file name the naming rule set prescribes: the segments of the present,
\* non-null properties in the order of the type's configured list
RuleFilename(datum, ext) ==
    LET listed == SelectSeq(FILENAME_PROPERTIES(TypeOf(datum)),
                            LAMBDA key : Present(datum, key))
    IN camelCase(TypeOf(datum))
         \o Concat([i \in 1..Len(listed) |->
                       "_" \o DisplayKey(listed[i]) \o "_" \o str(Get(datum, listed[i]))])
         \o ext

\* C8: the property segments of the file name follow the order of the frame
\* type's configured list, restricted to the present, non-null properties,
\* and two records holding the same pairs in different key order get the
\* same file name.
C8_FilenameOrder ==
    /\ \A i \in {1, 2} : (Called(i) /\ res[i].kind = "path") =>
         Last(res[i].path) = RuleFilename(inv[i].datum, inv[i].source_file.ext)
    /\ (/\ Called(1) /\ Called(2)
        /\ SamePairs(inv[1].datum, inv[2].datum)
        /\ inv[1].source_file.ext = inv[2].source_file.ext
        /\ res[1].kind = "path")
         => (res[2].kind = "path" /\ Last(res[2].path) = Last(res[1].path))

C8_Witness ==
    /\ Called(1) /\ Called(2)
    /\ SamePairs(inv[1].datum, inv[2].datum)
    /\ inv[1].datum # inv[2].datum
    /\ TypeOf(inv[1].datum) = TYPE_MASTER_DARK
    /\ Present(inv[1].datum, "gain")
    /\ Present(inv[1].datum, "exposureseconds")
    /\ res[1].kind = "path"
    /\ Last(res[2].path) = Last(res[1].path)

FlatRecord(datum) == ValidRecord(datum) /\ TypeOf(datum) = TYPE_MASTER_FLAT
IsText(datum, key) == HasKey(datum, key) /\ Get(datum, key).k = "str"
HasOptic(datum) == IsText(datum, NORMALIZED_HEADER_OPTIC)
                       /\ Get(datum, NORMALIZED_HEADER_OPTIC).s # ""
DateSegment(datum) == "DATE_" \o str(Get(datum, NORMALIZED_HEADER_DATE))

---------------------------------------------------------------------------
\* Properties of the run as a whole (specification Spec)

TypeIndex(t) == CHOOSE i \in 1..Len(MASTER_CALIBRATION_TYPES) : MASTER_CALIBRATION_TYPES[i] = t
TypeOrdered(log) ==
    \A i \in 1..Len(log) : \A j \in i..Len(log) :
        TypeIndex(log[i].frame_type) <= TypeIndex(log[j].frame_type)
Ended == exits # <<>>

\* C11: the metadata source is queried once per frame type in the order
\* bias, dark, flat, three times in a run that is not aborted, and the types
\* are processed one at a time: when the query of a type is about to be made
\* the planning loop and the copy loop of the type before it are exhausted,
\* every planning or copy step belongs to a type already queried, in the
\* order of the types, and the steps of every type but the one queried last
\* are all done.
C11_OneTypeAtATime ==
    /\ IsPrefix(queries, <<"MASTER BIAS", "MASTER DARK", "MASTER FLAT">>)
    /\ Completed => queries = <<"MASTER BIAS", "MASTER DARK", "MASTER FLAT">>
    /\ pc = "scan" => /\ Len(queries) = ti - 1
                      /\ mi > Len(metadata)
                      /\ ci > Len(copy_list)
    /\ pc \in {"plan", "copy"} => (Len(queries) = ti /\ queries[ti] = frame_type)
    /\ \A e \in Range(planned) \cup Range(plan_errors) \cup Range(copy_calls) :
         e.frame_type \in Range(queries)
    /\ TypeOrdered(planned) /\ TypeOrdered(plan_errors) /\ TypeOrdered(copy_calls)
    /\ \A k \in 1..(Len(queries) - 1) :
         LET t == queries[k] IN
         /\ Len(OfType(planned, t)) + Len(OfType(plan_errors, t)) = stats[t].scanned
         /\ CallPairs(OfType(copy_calls, t)) = PlanPairs(OfType(planned, t))

C11_Witness ==
    /\ Completed
    /\ \A t \in KnownTypes : OfType(copy_calls, t) # <<>>

\* a run ended by one of the two fatal errors the specification names
FatalError == raised \in {"ValueError", "FileExistsError"}

\* C12 (as claimed): every run that does not end in a fatal error (invalid
\* source directory, destination collision) emits the summary exactly once,
\* after the last copy attempt, also when files were skipped, and the
\* summary's totals are the sums of scanned, copied and skipped over the
\* three frame types.
C12_SummaryOnce ==
    /\ Len(summaries) <= 1
    /\ (Ended /\ ~FatalError) => Len(summaries) = 1
    /\ summaries # <<>> =>
         /\ Completed
         /\ CallPairs(copy_calls) = PlanPairs(planned)
         /\ summaries[1].per_type = stats
         /\ summaries[1].total_scanned =
              stats[TYPE_MASTER_BIAS].scanned + stats[TYPE_MASTER_DARK].scanned
                  + stats[TYPE_MASTER_FLAT].scanned
         /\ summaries[1].total_copied =
              stats[TYPE_MASTER_BIAS].copied + stats[TYPE_MASTER_DARK].copied
                  + stats[TYPE_MASTER_FLAT].copied
         /\ summaries[1].total_skipped =
              stats[TYPE_MASTER_BIAS].skipped + stats[TYPE_MASTER_DARK].skipped
                  + stats[TYPE_MASTER_FLAT].skipped

\* C13: main exits with code 1 exactly when copy_calibration_frames raised
\* (the source directory check, the collision guard or an unexpected
\* exception) and with code 0 when it returned; files skipped by planning or
\* copy failures do not make the exit code non-zero.
C13_ExitCode ==
    /\ Len(exits) <= 1
    /\ Ended =>
         /\ pc \in {"done", "raised"}
         /\ pc = "raised" <=> raised # "none"
         /\ raised # "none" => exits = <<1>>
         /\ raised = "none" => exits = <<0>>
    /\ raised \in {"none", "ValueError", "FileExistsError", "TypeError"}
    /\ raised = "ValueError" => queries = <<>>
    /\ raised = "FileExistsError" => existing_files # <<>>

C13_Witness ==
    /\ exits = <<0>>
    /\ plan_errors # <<>>
    /\ \E c \in Range(copy_calls) : ~c.ok

\* the destinations existing when the guard of frame type t runs: those that
\* existed before the run and those the earlier types' copies have written
WrittenBefore(t) ==
    {c.to_file : c \in {x \in Range(copy_calls) :
        x.ok /\ ~x.dryrun /\ TypeIndex(x.frame_type) < TypeIndex(t)}}
ExistingAtCheck(t) == fs0 \cup WrittenBefore(t)

\* C14: with no_overwrite set the guard of a frame type runs when all files
\* of the type are planned and none is copied yet, and no file of a type is
\* copied when some planned destination of that type existed at that moment.
C14_GuardBeforeCopies ==
    args.no_overwrite =>
        /\ pc = "copy" =>
             /\ mi > Len(metadata)
             /\ \A i \in 1..Len(copy_list) :
                  copy_list[i].dest_file \notin ExistingAtCheck(frame_type)
        /\ Collision =>
             /\ mi > Len(metadata)
             /\ existing_files # <<>>
             /\ OfType(copy_calls, frame_type) = <<>>
        /\ \A c \in Range(copy_calls) : \A e \in Range(OfType(planned, c.frame_type)) :
             e.dest_file \notin ExistingAtCheck(c.frame_type)

C14_Witness ==
    /\ args.no_overwrite
    /\ Collision
    /\ Len(copy_list) >= 2
    /\ Len(existing_files) = 1
    /\ copy_calls # <<>>

\* C15 (as claimed): without no_overwrite the collision check is not made
\* (a run never ends with FileExistsError and nothing is reported as
\* existing, whatever exists), and copy_file is invoked exactly once for
\* every planned pair, in plan order, by the time the run has ended.
C15_OverwriteByDefault ==
    ~args.no_overwrite =>
        /\ ~Collision
        /\ existing_files = <<>>
        /\ IsPrefix(CallPairs(copy_calls), PlanPairs(planned))
        /\ pc \in {"done", "raised"} => CallPairs(copy_calls) = PlanPairs(planned)

\* C16: copied + skipped never exceeds scanned for any frame type, and in a
\* completed run copied + skipped = scanned for every frame type.
C16_StatsConservation ==
    \A t \in KnownTypes :
        /\ stats[t].copied + stats[t].skipped <= stats[t].scanned
        /\ t \notin Range(queries) => stats[t] = ZeroStats
        /\ Completed => stats[t].copied + stats[t].skipped = stats[t].scanned

C16_Witness ==
    /\ Completed
    /\ \E t \in KnownTypes :
         /\ stats[t].scanned = 3
         /\ stats[t].copied = 1
         /\ stats[t].skipped = 2
         /\ OfType(plan_errors, t) # <<>>

\* the destination of call i existed when the call was made
ExistedAtCall(i) ==
    \/ copy_calls[i].to_file \in fs0
    \/ \E j \in 1..(i - 1) :
         /\ copy_calls[j].ok /\ ~copy_calls[j].dryrun
         /\ copy_calls[j].to_file = copy_calls[i].to_file

\* C17 (as claimed): with no_overwrite set no copy writes to a destination
\* that exists at the moment of the copy, a path written earlier in the same
\* run included.
C17_NeverWritesOverExisting ==
    args.no_overwrite =>
        \A i \in 1..Len(copy_calls) :
            (copy_calls[i].ok /\ ~copy_calls[i].dryrun) => ~ExistedAtCall(i)

\* C18 (as claimed, specification SpecPlan): on a record of a known type
\* whose required properties are all present and non-null, whatever scalar
\* their values are, build_destination_path returns a path.
C18_TotalOnValidRecords ==
    \A i \in 1..Len(inv) :
        (Called(i) /\ ValidRecord(inv[i].datum)) => res[i].kind = "path"

\* C18 (as claimed, specification Spec): the only exception planning raises
\* inside a run is the ValueError that is caught and skipped; none ends the
\* run.
C18_NoPlanningErrorEscapes ==
    raised \in {"none", "ValueError", "FileExistsError"}

====
